---------------------------- MODULE Spec2Model ----------------------------
(***************************************************************************)
(* A model of ergonomadic's nickname / userhost lookup                     *)
(* (irc/client_lookup_set.go), its user mask sets, and the loading of      *)
(* stored credentials (irc/password.go, irc/config.go).                    *)
(*                                                                         *)
(* Strings are sequences of one-character strings: <<"a", "!", "*">>.      *)
(***************************************************************************)
EXTENDS Integers, Sequences, FiniteSets, TLC

VARIABLES
    byNick,     \* ClientLookupSet.byNick: folded nick -> client id
    rows,       \* the rows of table `client` of ClientLookupSet.db
    history,    \* per client, the last of its Add and Remove that returned nil
    masks,      \* UserMaskSet.masks
    regexp,     \* UserMaskSet.regexp
    config,     \* the Config read from the file, and a credential of it
    loaded,     \* what loading the credentials produced
    input,      \* the argument of the function under test
    output,     \* its result
    call,       \* the last call made
    ret         \* what that call returned

lookupVars == <<byNick, rows, history>>

maskVars == <<masks, regexp>>

pureVars == <<input, output>>

passVars == <<config, loaded>>

vars == <<byNick, rows, history, masks, regexp, config, loaded, input, output, call, ret>>

-----------------------------------------------------------------------------
(* Strings *)

Contains(s, ch) == \E i \in DOMAIN s : s[i] = ch

\* Every sequence over `alphabet` of length at most n.
StringsUpTo(alphabet, n) == UNION {[1..k -> alphabet] : k \in 0..n}

\* ASCII lower-casing of one character (the upper-case letters the model uses).
AsciiLower(c) ==
    CASE c = "A" -> "a"
      [] c = "B" -> "b"
      [] c = "Z" -> "z"
      [] OTHER -> c

AsciiLowerStr(s) == [i \in DOMAIN s |-> AsciiLower(s[i])]

\* Name.ToLower: the folded form of a Name. Lower-case ASCII, then the
\* rfc1459 specials.
FoldChar(c) ==
    LET l == AsciiLower(c)
    IN  CASE l = "{" -> "["
          [] l = "|" -> "\\"
          [] l = "}" -> "]"
          [] l = "^" -> "~"
          [] OTHER -> l

ToLower(name) == [i \in DOMAIN name |-> FoldChar(name[i])]

-----------------------------------------------------------------------------
(* ExpandUserHost and QuoteLike *)

ExpandUserHost(userhost) ==
    LET e1 == IF ~Contains(userhost, "!") THEN userhost \o <<"!", "*">>
              ELSE userhost
    IN  IF ~Contains(e1, "@") THEN e1 \o <<"@", "*">> ELSE e1

\* A replacer that forgets to escape the LIKE wildcard `_`.
likeQuoterNoUnderscore(c) ==
    CASE c = "\\" -> <<"\\", "\\">>
      [] c = "%" -> <<"\\", "%">>
      [] c = "*" -> <<"%">>
      [] c = "?" -> <<"_">>
      [] OTHER -> <<c>>

\* likeQuoter: the replacement of one byte (every old string is one byte, so
\* strings.Replacer rewrites byte by byte and never rescans its output).
likeQuoter(c) ==
    CASE c = "\\" -> <<"\\", "\\">>
      [] c = "%" -> <<"\\", "%">>
      [] c = "_" -> <<"\\", "_">>
      [] c = "*" -> <<"%">>
      [] c = "?" -> <<"_">>
      [] OTHER -> <<c>>

RECURSIVE QuoteLike(_)
QuoteLike(userhost) ==
    IF userhost = <<>> THEN <<>>
    ELSE likeQuoter(Head(userhost)) \o QuoteLike(Tail(userhost))

\* SQLite's `subject LIKE pattern ESCAPE '\'`: % is any run, _ any one
\* character, the character after the escape is literal, and letters compare
\* without regard to ASCII case.
RECURSIVE LikeMatch(_, _)
LikeMatch(p, s) ==
    IF p = <<>> THEN s = <<>>
    ELSE IF p[1] = "%"
         THEN \E k \in 0..Len(s) : LikeMatch(Tail(p), SubSeq(s, k + 1, Len(s)))
    ELSE IF p[1] = "_"
         THEN s # <<>> /\ LikeMatch(Tail(p), Tail(s))
    ELSE IF p[1] = "\\"
         THEN /\ Len(p) >= 2
              /\ s # <<>>
              /\ AsciiLower(p[2]) = AsciiLower(s[1])
              /\ LikeMatch(SubSeq(p, 3, Len(p)), Tail(s))
    ELSE /\ s # <<>>
         /\ AsciiLower(p[1]) = AsciiLower(s[1])
         /\ LikeMatch(Tail(p), Tail(s))

\* The reference meaning of a glob mask: `*` is any run of characters, `?` is
\* exactly one character, every other character is itself.
RECURSIVE GlobMatch(_, _)
GlobMatch(m, s) ==
    IF m = <<>> THEN s = <<>>
    ELSE IF m[1] = "*"
         THEN \E k \in 0..Len(s) : GlobMatch(Tail(m), SubSeq(s, k + 1, Len(s)))
    ELSE IF m[1] = "?"
         THEN s # <<>> /\ GlobMatch(Tail(m), Tail(s))
    ELSE s # <<>> /\ m[1] = s[1] /\ GlobMatch(Tail(m), Tail(s))

\* The same, letters compared without regard to ASCII case.
GlobMatchNoCase(m, s) == GlobMatch(AsciiLowerStr(m), AsciiLowerStr(s))

-----------------------------------------------------------------------------
(* The clients and the backing store *)

NumClients == 4

ClientIds == 1..NumClients

Nil == 0

\* The connected clients the calls are made with: two whose nicks differ only
\* in letter case, one with a nick of its own, one that has no nick yet.
ClientTable ==
    <<[nick |-> <<"a">>, user |-> <<"u">>, host |-> <<"h">>],
      [nick |-> <<"A">>, user |-> <<"u">>, host |-> <<"g">>],
      [nick |-> <<"b">>, user |-> <<"u">>, host |-> <<"h">>],
      [nick |-> <<>>,    user |-> <<"u">>, host |-> <<"h">>],
      [nick |-> <<"B">>, user |-> <<"u">>, host |-> <<"g">>]>>

ClientOf(c) == ClientTable[((c - 1) % Len(ClientTable)) + 1]

Nick(c) == ClientOf(c).nick

HasNick(c) == Nick(c) # <<>>

\* Client.UserHost: nick!user@host
UserHost(c) ==
    ClientOf(c).nick \o <<"!">> \o ClientOf(c).user \o <<"@">> \o ClientOf(c).host

Row(nickname, userhost) == [nickname |-> nickname, userhost |-> userhost]

\* The constraints of table `client`: nickname UNIQUE, idx_nick and idx_uh
\* unique, all COLLATE NOCASE (ASCII letters only).
RowConflict(rs, r) ==
    \E q \in rs : \/ AsciiLowerStr(q.nickname) = AsciiLowerStr(r.nickname)
                  \/ AsciiLowerStr(q.userhost) = AsciiLowerStr(r.userhost)

TableOK(rs) == \A r \in rs : ~RowConflict(rs \ {r}, r)

\* Rows an earlier run of the server can have left in the database file:
\* NewClientDB keeps an existing table (it ignores "already exists").
StoredNicks == {<<"a">>, <<"z">>}

StoredHosts == {<<"h">>, <<"g">>}

StoredRows ==
    {Row(n, n \o <<"!", "u", "@">> \o h) : n \in StoredNicks, h \in StoredHosts}

\* ClientDB.Add: INSERT INTO client (nickname, userhost); the tables the
\* statement can leave. An Exec that fails on a violated constraint is
\* logged, nothing more. A row that equals the new one in both columns (up to
\* case) violates UNIQUE (nickname, userhost) ON CONFLICT REPLACE as well as
\* the aborting constraints: the insert fails or replaces that row, whichever
\* constraint the database resolves first.
DBAdd(rs, c) ==
    LET r == Row(Nick(c), UserHost(c))
        same == {q \in rs : /\ AsciiLowerStr(q.nickname) = AsciiLowerStr(r.nickname)
                            /\ AsciiLowerStr(q.userhost) = AsciiLowerStr(r.userhost)}
    IN  IF ~RowConflict(rs, r) THEN {rs \cup {r}}
        ELSE IF same # {} THEN {rs, (rs \ same) \cup {r}}
        ELSE {rs}

\* ClientDB.Remove: DELETE FROM client WHERE nickname = ? (NOCASE column).
DBRemove(rs, c) ==
    {r \in rs : AsciiLowerStr(r.nickname) # AsciiLowerStr(Nick(c))}

-----------------------------------------------------------------------------
(* ClientLookupSet *)

NoCall == [op |-> "none", client |-> Nil, name |-> <<>>]

Call(op, c, n) == [op |-> op, client |-> c, name |-> n]

Ret(err, c, s) == [err |-> err, client |-> c, set |-> s, ok |-> FALSE]

\* The return of a call that returns a bool.
BoolRet(b) == [err |-> "nil", client |-> Nil, set |-> {}, ok |-> b]

\* ClientLookupSet.Get on a given nickname map
GetIn(m, nick) == IF ToLower(nick) \in DOMAIN m THEN m[ToLower(nick)] ELSE Nil

Get(nick) == GetIn(byNick, nick)

MapPut(m, k, v) == [x \in DOMAIN m \cup {k} |-> IF x = k THEN v ELSE m[x]]

MapDelete(m, k) == [x \in DOMAIN m \ {k} |-> m[x]]

\* The clients in the nickname map.
Registered == {byNick[k] : k \in DOMAIN byNick}

\* The nicknames Get is called with.
GetNames == {<<"a">>, <<"A">>, <<"b">>, <<"z">>}

\* The lookup targets Find and FindAll are called with.
LookupNames ==
    {<<"a">>,
     <<"*">>,
     <<"*", "!", "*", "@", "h">>,
     <<"*", "!", "*", "@", "g">>,
     <<"?", "!", "u">>}

\* NewClientLookupSet: an empty nickname map over the database file, whose
\* table `client` holds what an earlier run left in it.
LookupInit ==
    /\ byNick = <<>>
    /\ rows \in {rs \in SUBSET StoredRows : TableOK(rs)}
    /\ history = [c \in ClientIds |-> "new"]

\* No ClientLookupSet in use.
LookupIdle ==
    /\ byNick = <<>>
    /\ rows = {}
    /\ history = [c \in ClientIds |-> "new"]

NoCallYet ==
    /\ call = NoCall
    /\ ret = Ret("none", Nil, {})

\* The last of Add(c) and Remove(c) that returned nil, after it did.
Recorded(c, what) == [history EXCEPT ![c] = what]

\* An Add that registers the client without looking for a holder of the nick.
AddNoCheck(c) ==
    /\ call' = Call("Add", c, <<>>)
    /\ IF ~HasNick(c)
       THEN /\ ret' = Ret("ErrNickMissing", Nil, {})
            /\ UNCHANGED <<byNick, rows, history>>
       ELSE /\ byNick' = MapPut(byNick, ToLower(Nick(c)), c)
            /\ rows' \in DBAdd(rows, c)
            /\ history' = Recorded(c, "added")
            /\ ret' = Ret("nil", Nil, {})

\* An Add that does not look whether the client has a nick.
AddNoNickCheck(c) ==
    /\ call' = Call("Add", c, <<>>)
    /\ IF Get(Nick(c)) # Nil
       THEN /\ ret' = Ret("ErrNicknameInUse", Nil, {})
            /\ UNCHANGED <<byNick, rows, history>>
       ELSE /\ byNick' = MapPut(byNick, ToLower(Nick(c)), c)
            /\ rows' \in DBAdd(rows, c)
            /\ history' = Recorded(c, "added")
            /\ ret' = Ret("nil", Nil, {})

Add(c) ==
    /\ call' = Call("Add", c, <<>>)
    /\ IF ~HasNick(c)
       THEN /\ ret' = Ret("ErrNickMissing", Nil, {})
            /\ UNCHANGED <<byNick, rows, history>>
       ELSE IF Get(Nick(c)) # Nil
       THEN /\ ret' = Ret("ErrNicknameInUse", Nil, {})
            /\ UNCHANGED <<byNick, rows, history>>
       ELSE /\ byNick' = MapPut(byNick, ToLower(Nick(c)), c)
            /\ rows' \in DBAdd(rows, c)
            /\ history' = Recorded(c, "added")
            /\ ret' = Ret("nil", Nil, {})

\* A Remove that does not look whether the nick is the client's own.
RemoveNoCheck(c) ==
    /\ call' = Call("Remove", c, <<>>)
    /\ IF ~HasNick(c)
       THEN /\ ret' = Ret("ErrNickMissing", Nil, {})
            /\ UNCHANGED <<byNick, rows, history>>
       ELSE /\ byNick' = MapDelete(byNick, ToLower(Nick(c)))
            /\ rows' = DBRemove(rows, c)
            /\ history' = Recorded(c, "removed")
            /\ ret' = Ret("nil", Nil, {})

\* A Remove that deletes the row of the index and leaves the nickname map.
RemoveKeepsNick(c) ==
    /\ call' = Call("Remove", c, <<>>)
    /\ IF ~HasNick(c)
       THEN /\ ret' = Ret("ErrNickMissing", Nil, {})
            /\ UNCHANGED <<byNick, rows, history>>
       ELSE IF Get(Nick(c)) # c
       THEN /\ ret' = Ret("ErrNicknameMismatch", Nil, {})
            /\ UNCHANGED <<byNick, rows, history>>
       ELSE /\ byNick' = byNick
            /\ rows' = DBRemove(rows, c)
            /\ history' = Recorded(c, "removed")
            /\ ret' = Ret("nil", Nil, {})

Remove(c) ==
    /\ call' = Call("Remove", c, <<>>)
    /\ IF ~HasNick(c)
       THEN /\ ret' = Ret("ErrNickMissing", Nil, {})
            /\ UNCHANGED <<byNick, rows, history>>
       ELSE IF Get(Nick(c)) # c
       THEN /\ ret' = Ret("ErrNicknameMismatch", Nil, {})
            /\ UNCHANGED <<byNick, rows, history>>
       ELSE /\ byNick' = MapDelete(byNick, ToLower(Nick(c)))
            /\ rows' = DBRemove(rows, c)
            /\ history' = Recorded(c, "removed")
            /\ ret' = Ret("nil", Nil, {})

DoGet(n) ==
    /\ call' = Call("Get", Nil, n)
    /\ ret' = Ret("nil", Get(n), {})
    /\ UNCHANGED <<byNick, rows, history>>

\* The rows `SELECT nickname FROM client WHERE userhost LIKE ? ESCAPE '\'`
\* selects for a lookup name.
Selected(userhost) ==
    {r \in rows : LikeMatch(QuoteLike(ExpandUserHost(userhost)), r.userhost)}

\* The clients the rows `rs` resolve to; a row whose nickname the nickname
\* map does not hold is logged and skipped.
Resolve(rs) == {Get(r.nickname) : r \in rs} \ {Nil}

\* FindAll. The query fails (queryErr): the empty set. Otherwise the rows
\* are read one by one, in the order the store yields them, into the result;
\* a read that fails is logged and returns what was collected until then
\* (`seen`, the rows read before the failure; all of them when none fails).
FindAllReturns(userhost, queryErr, seen) ==
    /\ call' = Call("FindAll", Nil, userhost)
    /\ ret' = Ret(IF queryErr THEN "queryError"
                  ELSE IF seen # Selected(userhost) THEN "scanError"
                  ELSE "nil",
                  Nil,
                  IF queryErr THEN {} ELSE Resolve(seen))
    /\ UNCHANGED <<byNick, rows, history>>

FindAll(userhost) ==
    LET sel == Selected(userhost)
    IN  \/ FindAllReturns(userhost, TRUE, {})
        \/ \E seen \in SUBSET sel : FindAllReturns(userhost, FALSE, seen)

\* Find. QueryRow ... LIMIT 1 yields whichever selected row the store finds
\* first; a failing query, or no row (sql.ErrNoRows), makes Scan fail: the
\* error is logged and nil returned.
FindReturns(userhost, err, r) ==
    /\ call' = Call("Find", Nil, userhost)
    /\ ret' = IF err = "nil" THEN Ret("nil", Get(r.nickname), {})
              ELSE Ret(err, Nil, {})
    /\ UNCHANGED <<byNick, rows, history>>

Find(userhost) ==
    LET sel == Selected(userhost)
    IN  \/ FindReturns(userhost, "queryError", Row(<<>>, <<>>))
        \/ sel = {} /\ FindReturns(userhost, "ErrNoRows", Row(<<>>, <<>>))
        \/ \E r \in sel : FindReturns(userhost, "nil", r)

-----------------------------------------------------------------------------
(* UserMaskSet *)

\* strings.Split(s, sep) for a one-character separator
RECURSIVE Split(_, _)
Split(s, sep) ==
    IF ~Contains(s, sep) THEN <<s>>
    ELSE LET i == CHOOSE k \in DOMAIN s :
                      s[k] = sep /\ \A j \in 1..(k - 1) : s[j] # sep
         IN  <<SubSeq(s, 1, i - 1)>> \o Split(SubSeq(s, i + 1, Len(s)), sep)

\* strings.Join(parts, sep)
RECURSIVE Join(_, _)
Join(parts, sep) ==
    IF parts = <<>> THEN <<>>
    ELSE IF Len(parts) = 1 THEN parts[1]
    ELSE parts[1] \o sep \o Join(Tail(parts), sep)

\* regexp.QuoteMeta: a backslash before every metacharacter
RegexpSpecial ==
    {"\\", ".", "+", "*", "?", "(", ")", "|", "[", "]", "{", "}", "^", "$"}

RECURSIVE QuoteMeta(_)
QuoteMeta(s) ==
    IF s = <<>> THEN <<>>
    ELSE (IF s[1] \in RegexpSpecial THEN <<"\\", s[1]>> ELSE <<s[1]>>)
         \o QuoteMeta(Tail(s))

\* The expression setRegexp's loop body builds for one mask.
MaskExpr(mask) ==
    LET manyParts == Split(mask, "*")
        oneExprs(manyPart) ==
            LET oneParts == Split(manyPart, "?")
            IN  [o \in DOMAIN oneParts |-> QuoteMeta(oneParts[o])]
        manyExprs == [m \in DOMAIN manyParts |-> Join(oneExprs(manyParts[m]), <<".">>)]
    IN  Join(manyExprs, <<".", "*">>)

\* The regular expression as regexp.Compile reads it: its tokens ...
RECURSIVE Tokens(_)
Tokens(e) ==
    IF e = <<>> THEN <<>>
    ELSE IF e[1] = "\\" /\ Len(e) >= 2
         THEN <<[k |-> "lit", c |-> e[2]]>> \o Tokens(SubSeq(e, 3, Len(e)))
    ELSE IF e[1] = "." /\ Len(e) >= 2 /\ e[2] = "*"
         THEN <<[k |-> "dotstar", c |-> ""]>> \o Tokens(SubSeq(e, 3, Len(e)))
    ELSE IF e[1] = "."
         THEN <<[k |-> "dot", c |-> ""]>> \o Tokens(Tail(e))
    ELSE IF e[1] \in {"^", "$", "|"}
         THEN <<[k |-> e[1], c |-> ""]>> \o Tokens(Tail(e))
    ELSE <<[k |-> "lit", c |-> e[1]]>> \o Tokens(Tail(e))

\* ... and the alternatives its top-level `|` separate (`|` binds weaker than
\* concatenation, and than the anchors).
Alternatives(e) == Split(Tokens(e), [k |-> "|", c |-> ""])

\* Whether the tokens match s from position i on (i characters consumed).
RECURSIVE MatchHere(_, _, _)
MatchHere(toks, s, i) ==
    IF toks = <<>> THEN TRUE
    ELSE LET t == toks[1]
         IN  CASE t.k = "^" -> i = 0 /\ MatchHere(Tail(toks), s, i)
               [] t.k = "$" -> i = Len(s) /\ MatchHere(Tail(toks), s, i)
               [] t.k = "lit" ->
                    i < Len(s) /\ s[i + 1] = t.c /\ MatchHere(Tail(toks), s, i + 1)
               [] t.k = "dot" ->
                    i < Len(s) /\ s[i + 1] # "\n" /\ MatchHere(Tail(toks), s, i + 1)
               [] t.k = "dotstar" ->
                    \E j \in i..Len(s) :
                        /\ \A x \in (i + 1)..j : s[x] # "\n"
                        /\ MatchHere(Tail(toks), s, j)

\* Regexp.MatchString: some alternative matches somewhere in s.
MatchString(e, s) ==
    LET alts == Alternatives(e)
    IN  \E a \in DOMAIN alts : \E i \in 0..Len(s) : MatchHere(alts[a], s, i)

NilRegexp == [nil |-> TRUE, expr |-> <<>>]

\* setRegexp. `index` is never advanced, so every mask's expression is stored
\* in maskExprs[0]: the slot ends holding the expression of the mask the map
\* iteration yields last (`pick`, any of them), the other slots stay "".
setRegexp(ms, pick) ==
    IF ms = {} THEN NilRegexp
    ELSE LET maskExprs == [i \in 1..Cardinality(ms) |->
                              IF i = 1 THEN MaskExpr(pick) ELSE <<>>]
         IN  [nil |-> FALSE,
              expr |-> <<"^">> \o Join(maskExprs, <<"|">>) \o <<"$">>]

\* UserMaskSet.Match
Match(userhost) ==
    IF regexp.nil THEN FALSE ELSE MatchString(regexp.expr, userhost)

\* The masks the set is changed with ...
MaskUniverse ==
    {<<"*", "!", "*", "@", "e", ".", "*">>,
     <<"b", "!", "*">>,
     <<"?", "!", "x", "@", "g", ".", "h">>,
     <<"B", "!", "*", "@", "g", ".", "h">>}

\* ... and the userhosts Match is called with.
Subjects ==
    {<<"b", "!", "x", "@", "e", ".", "h">>,
     <<"b", "!", "x", "@", "g", ".", "h">>,
     <<"B", "!", "x", "@", "g", ".", "h">>,
     <<"c", "c", "!", "x", "@", "g", "x", "h">>}

MaxAddAll == 2

MaskLists == StringsUpTo(MaskUniverse, MaxAddAll)

\* The last mask the iteration of `ms` can yield (none: the set is empty and
\* setRegexp does not iterate).
LastOf(ms) == IF ms = {} THEN {<<>>} ELSE ms

\* NewUserMaskSet
MaskInit ==
    /\ masks = {}
    /\ regexp = NilRegexp

MaskAdd(mask) ==
    /\ call' = Call("MaskAdd", Nil, mask)
    /\ IF mask \in masks
       THEN /\ ret' = BoolRet(FALSE)
            /\ UNCHANGED <<masks, regexp>>
       ELSE /\ masks' = masks \cup {mask}
            /\ \E pick \in LastOf(masks') : regexp' = setRegexp(masks', pick)
            /\ ret' = BoolRet(TRUE)

\* An `added` that tells of the last mask of the list only.
AddAllAddedLast(ms, list) ==
    list # <<>> /\ list[Len(list)] \notin ms

\* `added`, as the loop of AddAll computes it
RECURSIVE AddAllAdded(_, _)
AddAllAdded(ms, list) ==
    IF list = <<>> THEN FALSE
    ELSE Head(list) \notin ms \/ AddAllAdded(ms \cup {Head(list)}, Tail(list))

MaskAddAll(list) ==
    /\ call' = Call("MaskAddAll", Nil, list)
    /\ masks' = masks \cup {list[i] : i \in DOMAIN list}
    /\ \E pick \in LastOf(masks') : regexp' = setRegexp(masks', pick)
    /\ ret' = BoolRet(AddAllAdded(masks, list))

\* A Remove that leaves the compiled expression as it was.
MaskRemoveKeepsRegexp(mask) ==
    /\ call' = Call("MaskRemove", Nil, mask)
    /\ IF mask \notin masks
       THEN /\ ret' = BoolRet(FALSE)
            /\ UNCHANGED <<masks, regexp>>
       ELSE /\ masks' = masks \ {mask}
            /\ regexp' = regexp
            /\ ret' = BoolRet(TRUE)

MaskRemove(mask) ==
    /\ call' = Call("MaskRemove", Nil, mask)
    /\ IF mask \notin masks
       THEN /\ ret' = BoolRet(FALSE)
            /\ UNCHANGED <<masks, regexp>>
       ELSE /\ masks' = masks \ {mask}
            /\ \E pick \in LastOf(masks') : regexp' = setRegexp(masks', pick)
            /\ ret' = BoolRet(TRUE)

MaskMatch(userhost) ==
    /\ call' = Call("Match", Nil, userhost)
    /\ ret' = BoolRet(Match(userhost))
    /\ UNCHANGED <<masks, regexp>>

-----------------------------------------------------------------------------
(* ExpandUserHost and QuoteLike on their own *)

MaxTargetLen == 3

\* Lookup targets: nick and host letters, the separators, a wildcard.
TargetAlphabet == {"n", "h", "!", "@", "*"}

MaxMaskLen == 3

MaxSubjectLen == 3

\* Masks and subjects: both glob wildcards, both LIKE wildcards, the escape
\* character, and a letter in both cases.
LikeAlphabet == {"*", "?", "%", "_", "\\", "a", "A"}

PureIdle ==
    /\ input = <<>>
    /\ output = <<>>

DoExpandUserHost ==
    /\ call = NoCall
    /\ call' = Call("ExpandUserHost", Nil, input)
    /\ output' = ExpandUserHost(input)
    /\ UNCHANGED <<input, ret>>

DoQuoteLike ==
    /\ call = NoCall
    /\ call' = Call("QuoteLike", Nil, input)
    /\ output' = QuoteLike(input)
    /\ UNCHANGED <<input, ret>>

-----------------------------------------------------------------------------
(* Stored credentials: DecodePassword, PasswordBytes, Config.Operators and
   Config.Theaters *)

\* A stored credential is a string of base64 groups: "Q" is four data
\* characters (three bytes), "P2" is `xxx=` (two bytes), "P1" is `xx==` (one
\* byte), "X" is a character outside the base64 alphabet. A byte string is
\* modelled by its length.
MaxQuanta == 21

MinHashLen == 60

Quanta(n) == [i \in 1..n |-> "Q"]

Credentials ==
    {Quanta(n) \o pad \o bad :
        n \in 0..MaxQuanta,
        pad \in {<<>>, <<"P1">>, <<"P2">>},
        bad \in {<<>>, <<"X">>}}

\* base64.StdEncoding.DecodeString: the bytes decoded before the first error,
\* and the error. Padding ends the input.
RECURSIVE Base64Decode(_)
Base64Decode(encoded) ==
    IF encoded = <<>> THEN [n |-> 0, err |-> "nil"]
    ELSE IF encoded[1] = "Q"
         THEN LET rest == Base64Decode(Tail(encoded))
              IN  [n |-> 3 + rest.n, err |-> rest.err]
    ELSE IF encoded[1] \in {"P1", "P2"}
         THEN [n |-> IF encoded[1] = "P1" THEN 1 ELSE 2,
               err |-> IF Len(encoded) = 1 THEN "nil" ELSE "CorruptInputError"]
    ELSE [n |-> 0, err |-> "CorruptInputError"]

\* A DecodePassword whose length test is off by one.
DecodePasswordOffByOne(encoded) ==
    IF encoded = <<>> THEN [n |-> 0, err |-> "nil"]
    ELSE LET d == Base64Decode(encoded)
         IN  IF d.n < MinHashLen - 1
             THEN [n |-> d.n, err |-> "InvalidPasswordError"]
             ELSE d

DecodePassword(encoded) ==
    IF encoded = <<>> THEN [n |-> 0, err |-> "nil"]
    ELSE LET d == Base64Decode(encoded)
         IN  IF d.n < MinHashLen
             THEN [n |-> d.n, err |-> "InvalidPasswordError"]
             ELSE d

\* Name.IsChannel
IsChannel(name) == name # <<>> /\ name[1] \in {"#", "&", "+", "!"}

\* NewName: the Name of a configured string (the names of the model are
\* ASCII, which normalisation leaves as they are).
NewName(s) == s

\* The credential of a well-formed 60 byte hash.
GoodCredential == Quanta(20)

OperatorNames == {<<"r">>, <<"O">>}

TheaterNames == {<<"#", "t">>, <<"t">>}

\* The sections [operator "name"] / [theater "name"] a file can hold, each
\* with the credential under test or a good one.
Sections(names, cred) ==
    UNION {[d -> {cred, GoodCredential}] : d \in SUBSET names}

PassIdle ==
    /\ config = [cred |-> <<>>, operator |-> <<>>, theater |-> <<>>]
    /\ loaded = [fatal |-> FALSE, hashes |-> <<>>, n |-> 0]

PassInit ==
    /\ \E cred \in Credentials :
       \E op \in Sections(OperatorNames, cred) :
       \E th \in Sections(TheaterNames, cred) :
           config = [cred |-> cred, operator |-> op, theater |-> th]
    /\ loaded = [fatal |-> FALSE, hashes |-> <<>>, n |-> 0]

DoDecodePassword ==
    LET d == DecodePassword(config.cred)
    IN  /\ call' = Call("DecodePassword", Nil, config.cred)
        /\ ret' = Ret(d.err, Nil, {})
        /\ loaded' = [fatal |-> FALSE, hashes |-> <<>>, n |-> d.n]
        /\ UNCHANGED config

\* PassConfig.PasswordBytes aborts the process (log.Fatal) on an error, so a
\* loop over the sections returns its map only if no credential is refused.
Operators ==
    LET fatal == \E name \in DOMAIN config.operator :
                     DecodePassword(config.operator[name]).err # "nil"
    IN  /\ call' = Call("Operators", Nil, <<>>)
        /\ ret' = Ret("nil", Nil, {})
        /\ loaded' =
              IF fatal THEN [fatal |-> TRUE, hashes |-> <<>>, n |-> 0]
              ELSE [fatal |-> FALSE,
                    hashes |-> [name \in {NewName(s) : s \in DOMAIN config.operator} |->
                                   DecodePassword(config.operator[name]).n],
                    n |-> 0]
        /\ UNCHANGED config

Theaters ==
    LET fatal == \E s \in DOMAIN config.theater :
                     \/ ~IsChannel(NewName(s))
                     \/ DecodePassword(config.theater[s]).err # "nil"
    IN  /\ call' = Call("Theaters", Nil, <<>>)
        /\ ret' = Ret("nil", Nil, {})
        /\ loaded' =
              IF fatal THEN [fatal |-> TRUE, hashes |-> <<>>, n |-> 0]
              ELSE [fatal |-> FALSE,
                    hashes |-> [name \in {NewName(s) : s \in DOMAIN config.theater} |->
                                   DecodePassword(config.theater[name]).n],
                    n |-> 0]
        /\ UNCHANGED config

-----------------------------------------------------------------------------
(* GenerateEncodedPassword and ComparePassword *)

\* bcrypt reads 72 bytes of key: the password followed by a NUL byte,
\* repeated as often as it takes.
BcryptKeyLen == 72

\* The length of a bcrypt hash.
BcryptHashLen == 60

NUL == "NUL"

MaxFill == 73

Fill(n) == [i \in 1..n |-> "a"]

\* The lengths of the runs of "a" a plaintext starts with: the shortest, and
\* those about the 72 bytes bcrypt reads.
FillLens == {0, 1} \cup {n \in 0..MaxFill : n >= BcryptKeyLen - 2}

\* Plaintexts: short ones, ones about 72 bytes long, two of each length but
\* 0, and one with a NUL byte in it.
Plaintexts ==
    {Fill(n) \o tail : n \in FillLens, tail \in {<<>>, <<"b">>}}
    \cup {<<"a", NUL, "a">>}

Salts == {"s1", "s2"}

NoHash == [n |-> 0, salt |-> "", key |-> <<>>]

\* The key bytes bcrypt's key schedule reads from a password.
BcryptKey(password) ==
    LET ckey == password \o <<NUL>>
    IN  [i \in 1..BcryptKeyLen |-> ckey[((i - 1) % Len(ckey)) + 1]]

\* bcrypt.GenerateFromPassword: a hash of the salt and the key. `strict` is
\* the library that refuses a password of more than 72 bytes; the other
\* library hashes the 72 bytes it reads.
BcryptGenerate(password, salt, strict) ==
    IF strict /\ Len(password) > BcryptKeyLen
    THEN [hash |-> NoHash, err |-> "ErrPasswordTooLong"]
    ELSE [hash |-> [n |-> BcryptHashLen, salt |-> salt, key |-> BcryptKey(password)],
          err |-> "nil"]

\* base64.StdEncoding.EncodeToString of `n` bytes
Base64Encode(n) ==
    Quanta(n \div 3)
    \o (IF n % 3 = 1 THEN <<"P1">> ELSE IF n % 3 = 2 THEN <<"P2">> ELSE <<>>)

\* A GenerateEncodedPassword that does not refuse the empty password.
GenerateEncodedPasswordNoEmptyCheck(passwd, salt, strict) ==
    LET g == BcryptGenerate(passwd, salt, strict)
    IN  IF g.err # "nil"
        THEN [text |-> <<>>, bytes |-> NoHash, err |-> g.err]
        ELSE [text |-> Base64Encode(g.hash.n), bytes |-> g.hash, err |-> "nil"]

\* GenerateEncodedPassword: the credential is its base64 text and the bytes
\* the text encodes.
GenerateEncodedPassword(passwd, salt, strict) ==
    IF passwd = <<>>
    THEN [text |-> <<>>, bytes |-> NoHash, err |-> "EmptyPasswordError"]
    ELSE LET g == BcryptGenerate(passwd, salt, strict)
         IN  IF g.err # "nil"
             THEN [text |-> <<>>, bytes |-> NoHash, err |-> g.err]
             ELSE [text |-> Base64Encode(g.hash.n), bytes |-> g.hash, err |-> "nil"]

\* ComparePassword (bcrypt.CompareHashAndPassword): the hash of the password
\* under the salt of `hash` is `hash`.
ComparePassword(hash, password) ==
    IF hash.n < BcryptHashLen THEN "ErrHashTooShort"
    ELSE IF hash.key = BcryptKey(password) THEN "nil"
    ELSE "ErrMismatchedHashAndPassword"

\* What DecodePassword makes of a credential: the bytes of its text.
Decoded(cred) ==
    LET d == DecodePassword(cred.text)
    IN  [hash |-> [cred.bytes EXCEPT !.n = d.n], err |-> d.err]

DoGenerateEncodedPassword ==
    /\ call = NoCall
    /\ \E salt \in Salts, strict \in BOOLEAN :
           LET g == GenerateEncodedPassword(input, salt, strict)
           IN  /\ output' = [text |-> g.text, bytes |-> g.bytes]
               /\ ret' = Ret(g.err, Nil, {})
    /\ call' = Call("GenerateEncodedPassword", Nil, input)
    /\ UNCHANGED input

\* A password is checked against the stored credential: DecodePassword, then
\* ComparePassword on what it decoded.
DoComparePassword(password) ==
    /\ call.op \in {"GenerateEncodedPassword", "ComparePassword"}
    /\ output.text # <<>>
    /\ call' = Call("ComparePassword", Nil, password)
    /\ LET d == Decoded(output)
       IN  ret' = Ret(IF d.err # "nil" THEN d.err
                      ELSE ComparePassword(d.hash, password), Nil, {})
    /\ UNCHANGED <<input, output>>

-----------------------------------------------------------------------------
(* LoadConfig *)

MaxListen == 2

\* The values of server.listen; `listen =` gives an entry that is empty.
ListenAddrs == {<<>>, <<":", "1">>, <<":", "2">>}

\* A configuration file: whether gcfg.ReadFileInto can read and parse it,
\* and the options of its section [server] (an option the file does not
\* set, or sets to nothing, is "").
Files ==
    [readable : BOOLEAN,
     name : {<<>>, <<"i">>},
     database : {<<>>, <<"d">>},
     listen : StringsUpTo(ListenAddrs, MaxListen)]

NoServer == [name |-> <<>>, database |-> <<>>, listen |-> <<>>]

\* A LoadConfig that does not look at server.listen.
LoadConfigNoListen(file) ==
    LET server == [name |-> file.name, database |-> file.database,
                   listen |-> file.listen]
    IN  IF ~file.readable THEN [config |-> NoServer, err |-> "readError"]
        ELSE IF server.name = <<>>
        THEN [config |-> server, err |-> "server.name missing"]
        ELSE IF server.database = <<>>
        THEN [config |-> server, err |-> "server.database missing"]
        ELSE [config |-> server, err |-> "nil"]

LoadConfig(file) ==
    LET server == [name |-> file.name, database |-> file.database,
                   listen |-> file.listen]
    IN  IF ~file.readable THEN [config |-> NoServer, err |-> "readError"]
        ELSE IF server.name = <<>>
        THEN [config |-> server, err |-> "server.name missing"]
        ELSE IF server.database = <<>>
        THEN [config |-> server, err |-> "server.database missing"]
        ELSE IF Len(server.listen) = 0
        THEN [config |-> server, err |-> "server.listen missing"]
        ELSE [config |-> server, err |-> "nil"]

DoLoadConfig ==
    /\ call = NoCall
    /\ call' = Call("LoadConfig", Nil, <<>>)
    /\ output' = LoadConfig(input).config
    /\ ret' = Ret(LoadConfig(input).err, Nil, {})
    /\ UNCHANGED input

-----------------------------------------------------------------------------
(* Claims about ClientLookupSet *)

\* What a lookup target selects among the clients in the nickname map: those
\* whose nick!user@host matches the expanded mask, letters compared as the
\* index compares them (without regard to ASCII case).
Matching(userhost) ==
    {c \in Registered : GlobMatchNoCase(ExpandUserHost(userhost), UserHost(c))}

NoTwoShareFoldedNick ==
    \A c, d \in Registered : c # d => ToLower(Nick(c)) # ToLower(Nick(d))

AddOfHeldNickRejected ==
    \A c \in ClientIds :
        ( /\ call'.op = "Add" /\ call'.client = c
          /\ HasNick(c)
          /\ \E d \in Registered : ToLower(Nick(d)) = ToLower(Nick(c)) )
        => /\ ret'.err = "ErrNicknameInUse"
           /\ byNick' = byNick
           /\ rows' = rows

\* C1: no two distinct clients in the nickname map share a folded nickname,
\* and an Add of a client whose folded nick some registered client holds
\* returns ErrNicknameInUse and changes neither the map nor the index.
C1_UniqueFoldedNick ==
    []NoTwoShareFoldedNick /\ [][AddOfHeldNickRejected]_vars

\* C1's case: client 2 (nick "A") was refused while client 1 (nick "a")
\* holds the nick.
C1_Witness ==
    /\ call = Call("Add", 2, <<>>)
    /\ ret.err = "ErrNicknameInUse"
    /\ Get(<<"A">>) = 1

\* C3: a client is in the nickname map iff the userhost index holds a row
\* for it.
C3_MapIffIndex ==
    \A c \in ClientIds :
        HasNick(c) => (c \in Registered <=> Row(Nick(c), UserHost(c)) \in rows)

\* C5: FindAll returns exactly the registered clients whose userhost matches
\* the expanded mask (stated for the lookups in which the store did not fail).
C5_FindAllExact ==
    (call.op = "FindAll" /\ ret.err = "nil") => ret.set = Matching(call.name)

\* C6: Find returns a registered client whose userhost matches whenever there
\* is one, and nil only when there is none (stated for the lookups in which
\* the query did not fail).
C6_FindReturnsMatch ==
    (call.op = "Find" /\ ret.err # "queryError")
    => /\ ret.client # Nil => ret.client \in Matching(call.name)
       /\ Matching(call.name) # {} => ret.client # Nil

\* C9: when the store fails during a lookup, FindAll returns the empty set
\* and Find returns nil.
C9_FailureIsEmpty ==
    /\ (call.op = "FindAll" /\ ret.err \in {"queryError", "scanError"})
       => ret.set = {}
    /\ (call.op = "Find" /\ ret.err = "queryError") => ret.client = Nil

\* Get answers c for every spelling of its nick while the last of Add(c) and
\* Remove(c) that returned nil is the Add.
AddedIsGot ==
    \A c \in ClientIds :
        history[c] = "added"
        => \A n \in GetNames : ToLower(n) = ToLower(Nick(c)) => Get(n) = c

\* Find and FindAll return no client whose Remove returned nil and that was
\* not added since.
RemovedIsNotFound ==
    /\ call.op = "Find" => (ret.client = Nil \/ history[ret.client] # "removed")
    /\ call.op = "FindAll" => \A d \in ret.set : history[d] # "removed"

\* C14, as stated: after Add(c) returned nil, Get(n) returns c for every n
\* that folds to c's folded nick, until Remove(c) returns nil; after
\* Remove(c) returned nil, Get(c.nick) returns nil and neither Find nor
\* FindAll returns c, until c is added again.
C14_GotUntilRemoved ==
    /\ AddedIsGot
    /\ \A c \in ClientIds : history[c] = "removed" => Get(Nick(c)) = Nil
    /\ RemovedIsNotFound

\* After Remove(c) returned nil, the nick stays free until an Add returns nil.
FreedNickStaysFree ==
    \A c \in ClientIds :
        ( /\ history[c] = "removed"
          /\ Get(Nick(c)) = Nil
          /\ ~(call'.op = "Add" /\ ret'.err = "nil") )
        => GetIn(byNick', Nick(c)) = Nil

\* C14, amended: after Add(c) returned nil, Get(n) returns c for every n
\* that folds to c's folded nick, until Remove(c) returns nil; when
\* Remove(c) returns nil, Get(c.nick) returns nil, and goes on returning nil
\* until an Add of a client with that folded nick (c or another) returns nil;
\* until c is added again, none of Get, Find and FindAll returns c.
C14_GotUntilRemovedOrRetaken ==
    /\ [](/\ AddedIsGot
          /\ \A c \in ClientIds :
                 history[c] = "removed" => \A n \in GetNames : Get(n) # c
          /\ \A c \in ClientIds :
                 (call = Call("Remove", c, <<>>) /\ ret.err = "nil")
                 => Get(Nick(c)) = Nil
          /\ RemovedIsNotFound)
    /\ [][FreedNickStaysFree]_vars

\* C14's case: client 1 (nick "a") was removed, client 2 (nick "A") added
\* after it, and Get("a") returned client 2.
C14_Witness ==
    /\ history[1] = "removed"
    /\ history[2] = "added"
    /\ call = Call("Get", Nil, <<"a">>)
    /\ ret.client = 2

RemoveDeletesOwnEntryOnly ==
    \A c \in ClientIds :
        (call'.op = "Remove" /\ call'.client = c)
        => /\ ~HasNick(c)
              => /\ ret'.err = "ErrNickMissing"
                 /\ byNick' = byNick
                 /\ rows' = rows
           /\ (HasNick(c) /\ Get(Nick(c)) # c)
              => /\ ret'.err = "ErrNicknameMismatch"
                 /\ byNick' = byNick
                 /\ rows' = rows
           /\ \A k \in DOMAIN byNick :
                  byNick[k] # c => (k \in DOMAIN byNick' /\ byNick'[k] = byNick[k])
           /\ \A d \in Registered \ {c} :
                  Row(Nick(d), UserHost(d)) \in rows
                  => Row(Nick(d), UserHost(d)) \in rows'

\* C15: Remove(c) removes only c's own entry: when the nickname map has no
\* entry for c's nick, or maps it to another client, it returns
\* ErrNicknameMismatch and changes neither the map nor the index; when c has
\* no nick it returns ErrNickMissing and changes neither; no call deletes the
\* map entry or the index row of another registered client.
C15_RemoveOwnEntryOnly == [][RemoveDeletesOwnEntryOnly]_vars

\* C15's case: Remove of client 2 (nick "A") was refused while client 1
\* (nick "a") holds the nick, and client 1 still holds it.
C15_Witness ==
    /\ call = Call("Remove", 2, <<>>)
    /\ ret.err = "ErrNicknameMismatch"
    /\ Get(<<"A">>) = 1

FailingAddChangesNothing ==
    \A c \in ClientIds :
        (call'.op = "Add" /\ call'.client = c)
        => /\ ~HasNick(c) => ret'.err = "ErrNickMissing"
           /\ (HasNick(c) /\ Get(Nick(c)) # Nil) => ret'.err = "ErrNicknameInUse"
           /\ ret'.err # "nil"
              => /\ byNick' = byNick
                 /\ rows' = rows
                 /\ \A n \in GetNames : GetIn(byNick', n) = Get(n)

\* C16: an Add of a client without a nick returns ErrNickMissing, an Add of
\* a client whose nick is held (by another client or by itself) returns
\* ErrNicknameInUse, and every Add that returns an error leaves the nickname
\* map and the index as they were, Get answering as before.
C16_FailingAddIsNoOp == [][FailingAddChangesNothing]_vars

\* C16's case: client 1, registered, was added again and refused, and Get
\* still returns it.
C16_Witness ==
    /\ call = Call("Add", 1, <<>>)
    /\ ret.err = "ErrNicknameInUse"
    /\ history[1] = "added"
    /\ Get(<<"a">>) = 1

-----------------------------------------------------------------------------
(* Claims about UserMaskSet *)

\* C2: Match(subject) is true iff at least one member mask matches the whole
\* subject.
C2_MatchIffSomeMask ==
    \A s \in Subjects : Match(s) <=> \E m \in masks : GlobMatch(m, s)

\* C4: Match gives the same answer for subjects that differ only in letter
\* case.
C4_MatchIgnoresCase ==
    \A s1, s2 \in Subjects :
        AsciiLowerStr(s1) = AsciiLowerStr(s2) => Match(s1) = Match(s2)

\* What Match answers on a set newly built from the masks `ms`, the
\* iteration of its setRegexp yielding `pick` last.
FreshMatch(ms, pick, userhost) ==
    LET fresh == setRegexp(ms, pick)
    IN  IF fresh.nil THEN FALSE ELSE MatchString(fresh.expr, userhost)

\* C13: after any sequence of Add, AddAll and Remove, Match answers every
\* subject as a set newly built from the current members answers it, and a
\* set without members matches no subject.
C13_MatchFromCurrentMasks ==
    /\ \A s \in Subjects :
           \A pick \in LastOf(masks) : Match(s) = FreshMatch(masks, pick, s)
    /\ masks = {} => \A s \in Subjects : ~Match(s)
    /\ call.op = "Match" => ret.ok = Match(call.name)

\* C13's case: a Remove emptied the set, and a subject its last mask matched
\* is matched no more.
C13_Witness ==
    /\ call.op = "MaskRemove"
    /\ call.name = <<"b", "!", "*">>
    /\ ret.ok
    /\ masks = {}
    /\ ~Match(<<"b", "!", "x", "@", "e", ".", "h">>)

MutatorsReportChange ==
    LET list == call'.name
    IN  /\ call'.op = "MaskAdd" => (ret'.ok <=> call'.name \notin masks)
        /\ call'.op = "MaskRemove" => (ret'.ok <=> call'.name \in masks)
        /\ call'.op = "MaskAddAll"
           => (ret'.ok <=> \E i \in DOMAIN list : list[i] \notin masks)
        /\ call'.op \in {"MaskAdd", "MaskRemove", "MaskAddAll"}
           => (ret'.ok <=> masks' # masks)

\* C17: Add(m) returns true iff m was not a member before the call,
\* Remove(m) returns true iff m was a member, AddAll(ms) returns true iff
\* some element of ms was not a member (false for the empty list), and a
\* call returns false iff it leaves the set of masks as it was.
C17_MutatorsReportChange == [][MutatorsReportChange]_vars

\* C17's case: an AddAll of two distinct masks, the second of them a member
\* already, returned true.
C17_Witness ==
    /\ call.op = "MaskAddAll"
    /\ Len(call.name) = 2
    /\ call.name[1] # call.name[2]
    /\ ret.ok
    /\ Cardinality(masks) = 2

-----------------------------------------------------------------------------
(* Claims about ExpandUserHost and QuoteLike *)

\* A mask of the form nick!user@host: a `!` with an `@` somewhere after it.
WellFormedMask(e) ==
    \E i, j \in DOMAIN e : i < j /\ e[i] = "!" /\ e[j] = "@"

\* C7: ExpandUserHost returns a well-formed nick!user@host mask for every
\* target, and returns a target holding both `!` and `@` unchanged.
C7_ExpandWellFormed ==
    call.op = "ExpandUserHost"
    => /\ WellFormedMask(output)
       /\ (Contains(input, "!") /\ Contains(input, "@")) => output = input

\* C8: the LIKE pattern QuoteLike(mask), under ESCAPE '\', matches a subject
\* iff the glob mask matches it (`*` any run, `?` any one character, every
\* other character, `%`, `_` and `\` included, only itself; letters compared
\* without regard to ASCII case, as LIKE and the mask matching compare them).
C8_QuoteLikeIsGlob ==
    call.op = "QuoteLike"
    => \A s \in StringsUpTo(LikeAlphabet, MaxSubjectLen) :
           LikeMatch(output, s) <=> GlobMatchNoCase(input, s)

\* C8's case: a mask with a literal `_`, a literal `\` and a `*` was quoted.
C8_Witness ==
    /\ call.op = "QuoteLike"
    /\ input = <<"_", "\\", "*">>
    /\ output = <<"\\", "_", "\\", "\\", "%">>

-----------------------------------------------------------------------------
(* Claims about stored credentials *)

\* The section the hash of `name` was loaded from.
SectionOf(name) ==
    IF call.op = "Operators" THEN config.operator[name] ELSE config.theater[name]

\* C10, as stated: every credential whose base64-decoded form is shorter than
\* 60 bytes is refused by DecodePassword, and no entry of the maps Operators
\* and Theaters return holds a hash shorter than 60 bytes.
C10_ShortRejected ==
    /\ (call.op = "DecodePassword" /\ Base64Decode(config.cred).n < MinHashLen)
       => ret.err = "InvalidPasswordError"
    /\ (call.op \in {"Operators", "Theaters"} /\ ~loaded.fatal)
       => \A name \in DOMAIN loaded.hashes : loaded.hashes[name] >= MinHashLen

\* C10, amended: every non-empty credential whose base64-decoded form is
\* shorter than 60 bytes is refused by DecodePassword with
\* InvalidPasswordError; the empty credential is accepted and decodes to an
\* empty hash; an entry of the maps Operators and Theaters return holds a hash
\* of at least 60 bytes, or an empty hash that comes from an empty credential.
C10_NonEmptyShortRejected ==
    /\ (call.op = "DecodePassword" /\ config.cred # <<>>
        /\ Base64Decode(config.cred).n < MinHashLen)
       => ret.err = "InvalidPasswordError"
    /\ (call.op = "DecodePassword" /\ config.cred = <<>>)
       => (ret.err = "nil" /\ loaded.n = 0)
    /\ (call.op \in {"Operators", "Theaters"} /\ ~loaded.fatal)
       => \A name \in DOMAIN loaded.hashes :
              \/ loaded.hashes[name] >= MinHashLen
              \/ loaded.hashes[name] = 0 /\ SectionOf(name) = <<>>

\* C10's case: a non-empty credential of a 59 byte hash was refused.
C10_Witness ==
    /\ call.op = "DecodePassword"
    /\ config.cred = Quanta(19) \o <<"P2">>
    /\ ret.err = "InvalidPasswordError"

\* The plaintexts the amended C11 speaks of.
Plain(p) == Len(p) <= BcryptKeyLen /\ ~Contains(p, NUL)

\* C11, as stated: for every non-empty plaintext p, GenerateEncodedPassword
\* yields a credential that DecodePassword accepts and whose decoded hash
\* ComparePassword verifies against p and rejects against every other
\* plaintext; for the empty plaintext it returns EmptyPasswordError and no
\* credential.
C11_RoundTrip ==
    /\ (call.op = "GenerateEncodedPassword" /\ input # <<>>)
       => /\ ret.err = "nil"
          /\ output.text # <<>>
          /\ Decoded(output).err = "nil"
    /\ (call.op = "GenerateEncodedPassword" /\ input = <<>>)
       => (ret.err = "EmptyPasswordError" /\ output.text = <<>>)
    /\ call.op = "ComparePassword" => (ret.err = "nil" <=> call.name = input)

\* C11, amended: for every non-empty plaintext p of at most 72 bytes,
\* GenerateEncodedPassword yields a credential that DecodePassword accepts
\* and whose decoded hash ComparePassword verifies against p; if p holds no
\* NUL byte, ComparePassword rejects every other plaintext of at most 72
\* bytes that holds no NUL byte; for the empty plaintext
\* GenerateEncodedPassword returns EmptyPasswordError and no credential.
C11_RoundTripWithinKey ==
    /\ (call.op = "GenerateEncodedPassword" /\ input # <<>>
        /\ Len(input) <= BcryptKeyLen)
       => /\ ret.err = "nil"
          /\ output.text # <<>>
          /\ Decoded(output).err = "nil"
    /\ (call.op = "GenerateEncodedPassword" /\ input = <<>>)
       => (ret.err = "EmptyPasswordError" /\ output.text = <<>>)
    /\ (call.op = "ComparePassword" /\ call.name = input) => ret.err = "nil"
    /\ (call.op = "ComparePassword" /\ call.name # input
        /\ Plain(input) /\ Plain(call.name))
       => ret.err = "ErrMismatchedHashAndPassword"

\* C11's case: the credential of a 72 byte plaintext was generated, and the
\* plaintext that differs from it in the last byte was rejected.
C11_Witness ==
    /\ call = Call("ComparePassword", Nil, Fill(BcryptKeyLen))
    /\ input = Fill(BcryptKeyLen - 1) \o <<"b">>
    /\ output.text = Quanta(20)
    /\ ret.err = "ErrMismatchedHashAndPassword"

\* C12: LoadConfig returns an error whenever the file cannot be read,
\* server.name is empty, server.database is empty, or server.listen has no
\* entry, and returns nil only when the file was read and the three options
\* are there.
C12_RequiredOptions ==
    call.op = "LoadConfig"
    => (ret.err # "nil"
        <=> \/ ~input.readable
            \/ input.name = <<>>
            \/ input.database = <<>>
            \/ Len(input.listen) = 0)

\* C12's case: a file that sets server.name and server.database and no
\* server.listen was read and refused.
C12_Witness ==
    /\ call.op = "LoadConfig"
    /\ input.readable
    /\ input.name # <<>>
    /\ input.database # <<>>
    /\ input.listen = <<>>
    /\ ret.err = "server.listen missing"
    /\ output.listen = <<>>

-----------------------------------------------------------------------------
(* Specifications *)

\* The credentials of a configuration file being loaded.
PassSpecInit == PassInit /\ LookupIdle /\ MaskInit /\ PureIdle /\ NoCallYet

PassSpecNext ==
    \/ DoDecodePassword /\ UNCHANGED <<lookupVars, maskVars, pureVars>>
    \/ Operators /\ UNCHANGED <<lookupVars, maskVars, pureVars>>
    \/ Theaters /\ UNCHANGED <<lookupVars, maskVars, pureVars>>

PassSpec == PassSpecInit /\ [][PassSpecNext]_vars

\* ExpandUserHost applied to every lookup target of the bounded set.
ExpandInit ==
    /\ input \in StringsUpTo(TargetAlphabet, MaxTargetLen)
    /\ output = <<>>
    /\ LookupIdle /\ MaskInit /\ PassIdle /\ NoCallYet

ExpandNext == DoExpandUserHost /\ UNCHANGED <<lookupVars, maskVars, passVars>>

ExpandSpec == ExpandInit /\ [][ExpandNext]_vars

\* QuoteLike applied to every mask of the bounded set.
QuoteInit ==
    /\ input \in StringsUpTo(LikeAlphabet, MaxMaskLen)
    /\ output = <<>>
    /\ LookupIdle /\ MaskInit /\ PassIdle /\ NoCallYet

QuoteNext == DoQuoteLike /\ UNCHANGED <<lookupVars, maskVars, passVars>>

QuoteSpec == QuoteInit /\ [][QuoteNext]_vars

\* A password is stored and passwords are checked against it.
GenInit ==
    /\ input \in Plaintexts
    /\ output = [text |-> <<>>, bytes |-> NoHash]
    /\ LookupIdle /\ MaskInit /\ PassIdle /\ NoCallYet

GenNext ==
    \/ DoGenerateEncodedPassword /\ UNCHANGED <<lookupVars, maskVars, passVars>>
    \/ \E q \in Plaintexts :
           DoComparePassword(q) /\ UNCHANGED <<lookupVars, maskVars, passVars>>

GenSpec == GenInit /\ [][GenNext]_vars

\* LoadConfig applied to every configuration file of the bounded set.
LoadInit ==
    /\ input \in Files
    /\ output = NoServer
    /\ LookupIdle /\ MaskInit /\ PassIdle /\ NoCallYet

LoadNext == DoLoadConfig /\ UNCHANGED <<lookupVars, maskVars, passVars>>

LoadSpec == LoadInit /\ [][LoadNext]_vars

\* The ClientLookupSet under serialized calls.
Init == LookupInit /\ MaskInit /\ PureIdle /\ PassIdle /\ NoCallYet

Next ==
    \/ \E c \in ClientIds : Add(c) /\ UNCHANGED <<maskVars, pureVars, passVars>>
    \/ \E c \in ClientIds : Remove(c) /\ UNCHANGED <<maskVars, pureVars, passVars>>
    \/ \E n \in GetNames : DoGet(n) /\ UNCHANGED <<maskVars, pureVars, passVars>>
    \/ \E n \in LookupNames : FindAll(n) /\ UNCHANGED <<maskVars, pureVars, passVars>>
    \/ \E n \in LookupNames : Find(n) /\ UNCHANGED <<maskVars, pureVars, passVars>>

Spec == Init /\ [][Next]_vars

\* A UserMaskSet under serialized calls.
MaskSpecInit == MaskInit /\ LookupIdle /\ PureIdle /\ PassIdle /\ NoCallYet

MaskSpecNext ==
    \/ \E m \in MaskUniverse : MaskAdd(m) /\ UNCHANGED <<lookupVars, pureVars, passVars>>
    \/ \E l \in MaskLists : MaskAddAll(l) /\ UNCHANGED <<lookupVars, pureVars, passVars>>
    \/ \E m \in MaskUniverse : MaskRemove(m) /\ UNCHANGED <<lookupVars, pureVars, passVars>>
    \/ \E s \in Subjects : MaskMatch(s) /\ UNCHANGED <<lookupVars, pureVars, passVars>>

MaskSpec == MaskSpecInit /\ [][MaskSpecNext]_vars

=============================================================================
